---- MODULE Spec2Model ----
(***************************************************************************)
(* A model of the gremlin client driver (src/gremlin_tracer.go): the       *)
(* websocket session (Exec / ReadResponse / Authenticate / Reconnect /     *)
(* MaintainConnection / Close) and the process-wide cluster registry       *)
(* (NewCluster / SplitServers / CreateConnection).                         *)
(*                                                                         *)
(* Texts (JSON payloads, URL strings, environment values) are sequences    *)
(* of one-character or one-lexeme strings; byte strings are sequences of   *)
(* numbers 0..255.  A nil []byte and an empty one are both <<>>.           *)
(***************************************************************************)
EXTENDS Integers, Sequences, FiniteSets, TLC

(***************************************************************************)
(* Bounds of the model.                                                    *)
(***************************************************************************)
\* calls of the session (ExecQuery, MaintainConnection, Reconnect, Close) plus
\* frames sent by the server
MaxWork == 4
\* cluster configuration / selection calls explored
MaxClusterCalls == 3

\* calls made through the tracing decorator
MaxTracerCalls == 2

(***************************************************************************)
(* Generic helpers.                                                        *)
(***************************************************************************)
SubText(t, i, j) == [k \in 1..(j - i + 1) |-> t[i + k - 1]]

RECURSIVE Flatten(_)
Flatten(ss) == IF ss = <<>> THEN <<>> ELSE Head(ss) \o Flatten(Tail(ss))

(***************************************************************************)
(* encoding/json, as far as ReadResponse uses it.  A JSON text is a        *)
(* sequence of lexemes: "[" "]" "," "{" "}" the scalars "1" "2" "null"     *)
(* and the whitespace lexeme " ".  Anything else is not JSON.              *)
(***************************************************************************)
JsonScalars == {"1", "2", "null"}

RECURSIVE SkipWs(_, _)
SkipWs(t, i) == IF i <= Len(t) /\ t[i] = " " THEN SkipWs(t, i + 1) ELSE i

\* ParseValue(t, i): the index just after the JSON value that starts at i,
\* or 0 when no value starts there.
RECURSIVE ParseValue(_, _)
RECURSIVE ParseElems(_, _)
ParseValue(t, i) ==
    IF i > Len(t) THEN 0
    ELSE IF t[i] \in JsonScalars THEN i + 1
    ELSE IF t[i] = "{"
         THEN LET j == SkipWs(t, i + 1)
              IN IF j <= Len(t) /\ t[j] = "}" THEN j + 1 ELSE 0
    ELSE IF t[i] = "["
         THEN LET j == SkipWs(t, i + 1)
              IN IF j <= Len(t) /\ t[j] = "]" THEN j + 1 ELSE ParseElems(t, j)
    ELSE 0

\* the elements of an array from index i (an element must start there) up to "]"
ParseElems(t, i) ==
    LET e == ParseValue(t, i)
        j == SkipWs(t, e)
    IN IF e = 0 \/ j > Len(t) THEN 0
       ELSE IF t[j] = "]" THEN j + 1
       ELSE IF t[j] = "," THEN ParseElems(t, SkipWs(t, j + 1))
       ELSE 0

\* json.Valid: one value, surrounded by optional whitespace
JsonValid(t) ==
    LET e == ParseValue(t, SkipWs(t, 1))
    IN e # 0 /\ SkipWs(t, e) = Len(t) + 1

\* the raw texts of the elements of the valid array text whose first element
\* (or closing bracket) is at index i
RECURSIVE ArrayElems(_, _)
ArrayElems(t, i) ==
    IF t[i] = "]" THEN <<>>
    ELSE LET e == ParseValue(t, i)
             j == SkipWs(t, e)
         IN <<SubText(t, i, e - 1)>> \o
            (IF t[j] = "," THEN ArrayElems(t, SkipWs(t, j + 1)) ELSE <<>>)

\* json.Unmarshal(data, &items) for items []json.RawMessage, initially nil:
\* a syntax error for a text that is not JSON (the empty text included), nil
\* items for the value null, the raw elements for an array, and a type error
\* for every other value.
UnmarshalItems(t) ==
    LET s == SkipWs(t, 1)
    IN IF ~JsonValid(t) THEN [err |-> "SyntaxError", items |-> <<>>]
       ELSE IF t[s] = "null" THEN [err |-> "nil", items |-> <<>>]
       ELSE IF t[s] = "[" THEN [err |-> "nil", items |-> ArrayElems(t, SkipWs(t, s + 1))]
       ELSE [err |-> "UnmarshalTypeError", items |-> <<>>]

\* json.Compact: insignificant whitespace removed (the texts hold no strings)
Compact(t) == SelectSeq(t, LAMBDA c : c # " ")

RECURSIVE JoinItems(_)
JoinItems(items) ==
    IF items = <<>> THEN <<>>
    ELSE IF Len(items) = 1 THEN Compact(items[1])
    ELSE Compact(items[1]) \o <<",">> \o JoinItems(Tail(items))

\* json.Marshal(dataItems) for dataItems []json.RawMessage: a nil slice is
\* encoded as null; appending no element to a nil slice leaves it nil, so in
\* ReadResponse dataItems is nil exactly when it holds no item.
MarshalItems(items) ==
    IF items = <<>> THEN <<"null">>
    ELSE <<"[">> \o JoinItems(items) \o <<"]">>

(***************************************************************************)
(* encoding/base64, StdEncoding.EncodeToString: three bytes become four    *)
(* characters of the alphabet, the last group is padded with "=".          *)
(***************************************************************************)
B64Alphabet ==
    << "A","B","C","D","E","F","G","H","I","J","K","L","M","N","O","P",
       "Q","R","S","T","U","V","W","X","Y","Z","a","b","c","d","e","f",
       "g","h","i","j","k","l","m","n","o","p","q","r","s","t","u","v",
       "w","x","y","z","0","1","2","3","4","5","6","7","8","9","+","/" >>

B64Char(n) == B64Alphabet[n + 1]

RECURSIVE EncodeToString(_)
EncodeToString(b) ==
    IF Len(b) = 0 THEN <<>>
    ELSE IF Len(b) = 1
         THEN << B64Char(b[1] \div 4), B64Char((b[1] % 4) * 16), "=", "=" >>
    ELSE IF Len(b) = 2
         THEN << B64Char(b[1] \div 4),
                 B64Char((b[1] % 4) * 16 + b[2] \div 16),
                 B64Char((b[2] % 16) * 4), "=" >>
    ELSE << B64Char(b[1] \div 4),
            B64Char((b[1] % 4) * 16 + b[2] \div 16),
            B64Char((b[2] % 16) * 4 + b[3] \div 64),
            B64Char(b[3] % 64) >> \o EncodeToString(SubText(b, 4, Len(b)))

(***************************************************************************)
(* URL strings.  A string s over UrlChars stands for the URL text          *)
(* "ws://" s ":8182" with the blanks of s kept where they are: "a" and "b" *)
(* are host characters, "%" is a malformed percent escape, " " is a blank  *)
(* and "," the separator of GREMLIN_SERVERS (a legal host character).      *)
(***************************************************************************)
UrlChars == {"a", "b", "%", " ", ","}

\* url.Parse: a blank (before the scheme, in the host or after the port) and a
\* malformed escape are errors; every other text parses, the empty host too.
UrlParse(s) ==
    IF \E i \in 1..Len(s) : s[i] \in {" ", "%"}
    THEN [err |-> "UrlParseError", url |-> <<>>]
    ELSE [err |-> "nil", url |-> s]

\* strings.TrimSpace
RECURSIVE TrimLeft(_)
TrimLeft(s) == IF s # <<>> /\ Head(s) = " " THEN TrimLeft(Tail(s)) ELSE s

RECURSIVE TrimRight(_)
TrimRight(s) ==
    IF s # <<>> /\ s[Len(s)] = " " THEN TrimRight(SubText(s, 1, Len(s) - 1)) ELSE s

TrimSpace(s) == TrimRight(TrimLeft(s))

\* strings.Split(s, ","): the pieces between the separators, at least one
RECURSIVE SplitFrom(_, _)
SplitFrom(s, cur) ==
    IF s = <<>> THEN <<cur>>
    ELSE IF Head(s) = "," THEN <<cur>> \o SplitFrom(Tail(s), <<>>)
    ELSE SplitFrom(Tail(s), Append(cur, Head(s)))

Split(s) == SplitFrom(s, <<>>)

\* the loop of SplitServers (lines 323-329): the entries parsed before a
\* failing one are in the returned list
RECURSIVE SplitServersLoop(_, _)
SplitServersLoop(serverStrings, acc) ==
    IF serverStrings = <<>> THEN [servers |-> acc, err |-> "nil"]
    ELSE LET u == UrlParse(TrimSpace(Head(serverStrings)))
         IN IF u.err # "nil" THEN [servers |-> acc, err |-> u.err]
            ELSE SplitServersLoop(Tail(serverStrings), Append(acc, u.url))

SplitServers(connString) ==
    LET serverStrings == Split(connString)
    IN IF Len(serverStrings) < 1
       THEN [servers |-> <<>>, err |-> "BadConnectionString"]
       ELSE SplitServersLoop(serverStrings, <<>>)

\* the loop of NewCluster over the supplied servers (lines 307-313), which
\* appends to the global list as it goes
RECURSIVE NewClusterLoop(_, _)
NewClusterLoop(s, acc) ==
    IF s = <<>> THEN [servers |-> acc, err |-> "nil"]
    ELSE LET u == UrlParse(Head(s))
         IN IF u.err # "nil" THEN [servers |-> acc, err |-> u.err]
            ELSE NewClusterLoop(Tail(s), Append(acc, u.url))

\* NewCluster without the test of line 299: the empty value is split as well
NewClusterResultUnchecked(s, env) ==
    IF Len(s) = 0 THEN SplitServers(TrimSpace(env)) ELSE NewClusterLoop(s, <<>>)

\* NewCluster(s...) with GREMLIN_SERVERS = env ("" when unset): the value of the
\* global servers and the error when it returns
NewClusterResult(s, env) ==
    IF Len(s) = 0
    THEN LET connString == TrimSpace(env)
         IN IF connString = <<>>
            THEN [servers |-> <<>>, err |-> "NoServersSet"]
            ELSE SplitServers(connString)
    ELSE NewClusterLoop(s, <<>>)

\* the inputs explored
ArgLists ==
    { << <<"a">> >>, << <<"b">>, <<"a">> >>, << <<"a">>, <<"a">>, <<"b">> >>,
      << <<"%">> >>, << <<"a">>, <<"%">> >>, << <<"%">>, <<"a">> >>,
      << <<"b">>, <<"a">>, <<"%">>, <<"a">> >>, << <<" ", "a">> >>,
      << <<"a">>, <<>> >> }

EnvStrings ==
    { <<>>, <<" ">>, <<"a">>, <<"a", ",", "b">>, <<"b", ",", " ", "a", " ">>,
      <<"a", ",", "%">>, <<"%", ",", "a">>, <<"a", ",">>, <<",">>,
      <<"a", ",", "b", ",", "%">> }

(***************************************************************************)
(* Status codes and the status table.  The constants and ErrorMsg are      *)
(* declared in a file of the package that is not part of the sources at    *)
(* hand; the values are the Gremlin server's (407 is named at line 200).   *)
(***************************************************************************)
StatusSuccess == 200
StatusNoContent == 204
StatusPartialContent == 206
StatusAuthenticate == 407
StatusServerError == 500

\* codes the status table does not hold
UnlistedCodes == {999}

ErrorMsg == [c \in {StatusServerError} |-> "Server Error"]

(***************************************************************************)
(* Errors.  kind stands for the dynamic type or, for errors.New, for the   *)
(* message; code, msg and detail are the values formatted into a message.  *)
(***************************************************************************)
Err(kind) == [kind |-> kind, code |-> 0, msg |-> "", detail |-> ""]

Nil == Err("nil")

\* errors.New(msg)
ErrorsNew(msg) == [kind |-> "errors.New", code |-> 0, msg |-> msg, detail |-> ""]

\* what WriteMessage and ReadMessage of the websocket can fail with: an error
\* of the operating system's socket (*net.OpError), or an error of the
\* websocket layer (*websocket.CloseError when the peer went away, ...)
TransportErrs == {"NetOpError", "CloseError"}

\* StatusError that ignores the verbosity
StatusErrorTerse(code, message, verbose) ==
    IF code \notin DOMAIN ErrorMsg
    THEN [kind |-> "errors.New", code |-> 0, msg |-> "An unknown error occured",
          detail |-> ""]
    ELSE [kind |-> "errors.New", code |-> 0, msg |-> ErrorMsg[code], detail |-> ""]

\* lines 173-183: the error of a reply whose status is none of the four handled
StatusError(code, message, verbose) ==
    IF code \notin DOMAIN ErrorMsg
    THEN ErrorsNew("An unknown error occured")
    ELSE IF ~verbose
    THEN ErrorsNew(ErrorMsg[code])
    ELSE [kind |-> "errors.New", code |-> code, msg |-> ErrorMsg[code],
          detail |-> message]

\* line 280: err.(*net.OpError)
IsNetErr(err) == err.kind = "NetOpError"

(***************************************************************************)
(* Reply frames.  ok says whether json.Unmarshal(message, &res) succeeds.  *)
(***************************************************************************)
Frame(rid, code, message, data) ==
    [ok |-> TRUE, RequestId |-> rid, Code |-> code, Message |-> message, Data |-> data]

BadFrame == [ok |-> FALSE, RequestId |-> 0, Code |-> 0, Message |-> "", Data |-> <<>>]

DataTexts ==
    { <<"[", "]">>, <<"[", "1", "]">>, <<"[", "2", ",", " ", "1", "]">>, <<"{", "}">> }

\* the frames the server may send in reply to request rid
ReplyFrames(rid) ==
    {Frame(rid, c, "", d) : c \in {StatusSuccess, StatusPartialContent}, d \in DataTexts}
    \cup {Frame(rid, StatusNoContent, "", <<"[", "1", "]">>)}
    \cup {Frame(rid, StatusAuthenticate, "", <<>>)}
    \cup {Frame(rid, c, "detail", <<>>) : c \in {StatusServerError} \cup UnlistedCodes}
    \cup {BadFrame}

(***************************************************************************)
(* Credentials.  An option is OptAuthEnv() or OptAuthUserPass(user, pass); *)
(* an environment variable is unset or holds a byte string.                *)
(***************************************************************************)
OptAuthEnv == [kind |-> "env", user |-> <<>>, pass |-> <<>>]

OptAuthUserPass(user, pass) == [kind |-> "userpass", user |-> user, pass |-> pass]

Unset == [set |-> FALSE, val |-> <<>>]

EnvVal(b) == [set |-> TRUE, val |-> b]

\* ApplyOpt that does not look whether GREMLIN_PASS is set
ApplyOptUserOnly(op, auth, env) ==
    IF op.kind = "env"
    THEN IF ~env.user.set
         THEN [err |-> ErrorsNew("Variable GREMLIN_USER is not set"), auth |-> auth]
         ELSE [err |-> Nil, auth |-> [auth EXCEPT !.User = env.user.val,
                                                  !.Pass = env.pass.val]]
    ELSE [err |-> Nil, auth |-> [auth EXCEPT !.User = op.user, !.Pass = op.pass]]

\* lines 224-236 and 241-245: one option applied to the draft
ApplyOpt(op, auth, env) ==
    IF op.kind = "env"
    THEN IF ~env.user.set THEN [err |-> ErrorsNew("Variable GREMLIN_USER is not set"), auth |-> auth]
         ELSE IF ~env.pass.set THEN [err |-> ErrorsNew("Variable GREMLIN_PASS is not set"),
                                        auth |-> auth]
         ELSE [err |-> Nil, auth |-> [auth EXCEPT !.User = env.user.val,
                                                  !.Pass = env.pass.val]]
    ELSE [err |-> Nil, auth |-> [auth EXCEPT !.User = op.user, !.Pass = op.pass]]

\* lines 211-220: the options applied in order, the first error aborts
RECURSIVE NewAuthInfoLoop(_, _, _)
NewAuthInfoLoop(options, auth, env) ==
    IF options = <<>> THEN [err |-> Nil, auth |-> auth]
    ELSE LET r == ApplyOpt(Head(options), auth, env)
         IN IF r.err # Nil THEN r ELSE NewAuthInfoLoop(Tail(options), r.auth, env)

NewAuthInfo(options, env) ==
    NewAuthInfoLoop(options, [ChallengeId |-> 0, User |-> <<>>, Pass |-> <<>>], env)

\* Sasl without the leading zero byte
SaslNoLeadingZero(user, pass) == EncodeToString(user \o <<0>> \o pass)

\* lines 254-259
Sasl(user, pass) == EncodeToString(<<0>> \o user \o <<0>> \o pass)

NoArgs == [gremlin |-> <<>>, sasl |-> <<>>]

\* lines 260-266
AuthRequest(requestId, auth) ==
    [RequestId |-> requestId, Processor |-> "trasversal", Op |-> "authentication",
     Args |-> [NoArgs EXCEPT !.sasl = Sasl(auth.User, auth.Pass)]]

\* Query(query) with a fresh request identifier (the envelope codec is not
\* part of the sources at hand)
QueryRequest(id, query) ==
    [RequestId |-> id, Processor |-> "", Op |-> "eval",
     Args |-> [NoArgs EXCEPT !.gremlin = query]]

NoRequest == [RequestId |-> 0, Processor |-> "", Op |-> "", Args |-> NoArgs]

\* the inputs explored
AuthUser == <<117>>

AuthPass == <<112, 119>>

AuthChoices ==
    { <<>>, <<OptAuthUserPass(AuthUser, AuthPass)>>,
      <<OptAuthUserPass(AuthUser, AuthPass), OptAuthEnv>> }

EnvChoices ==
    [user : {Unset, EnvVal(<<101, 117, 255>>)}, pass : {Unset, EnvVal(<<>>)}]

(***************************************************************************)
(* ReadResponse, lines 147-184: what one decoded frame does to the loop.   *)
(* The result is [next, data, err, inBatchMode, dataItems]: next is        *)
(* "loop" (read the next frame), "return" or "authenticate".               *)
(***************************************************************************)
Step(next, data, err, inBatchMode, dataItems) ==
    [next |-> next, data |-> data, err |-> err, inBatchMode |-> inBatchMode,
     dataItems |-> dataItems]

\* OnPartialContent that hands each frame's items out as they arrive
OnPartialContentStreams(res, inBatchMode, dataItems) ==
    LET u == UnmarshalItems(res.Data)
    IN IF u.err # "nil" THEN Step("return", <<>>, Err(u.err), TRUE, dataItems)
       ELSE Step("return", MarshalItems(dataItems \o u.items), Nil, TRUE,
                 dataItems \o u.items)

\* OnPartialContent that hands out the items of the earlier frames when a
\* frame's items do not decode
OnPartialContentKeepsItems(res, inBatchMode, dataItems) ==
    LET u == UnmarshalItems(res.Data)
    IN IF u.err # "nil"
       THEN Step("return", MarshalItems(dataItems), Err(u.err), TRUE, dataItems)
       ELSE Step("loop", <<>>, Nil, TRUE, dataItems \o u.items)

\* lines 154-159
OnPartialContent(res, inBatchMode, dataItems) ==
    LET u == UnmarshalItems(res.Data)
    IN IF u.err # "nil" THEN Step("return", <<>>, Err(u.err), TRUE, dataItems)
       ELSE Step("loop", <<>>, Nil, TRUE, dataItems \o u.items)

\* OnSuccess without the inBatchMode test: the single-frame reply is decoded
\* and marshalled like a batch
OnSuccessAlwaysMarshal(res, inBatchMode, dataItems) ==
    LET u == UnmarshalItems(res.Data)
    IN IF u.err # "nil" THEN Step("return", <<>>, Err(u.err), inBatchMode, dataItems)
       ELSE Step("return", MarshalItems(dataItems \o u.items), Nil, inBatchMode,
                 dataItems \o u.items)

\* lines 161-171
OnSuccess(res, inBatchMode, dataItems) ==
    IF inBatchMode
    THEN LET u == UnmarshalItems(res.Data)
         IN IF u.err # "nil" THEN Step("return", <<>>, Err(u.err), inBatchMode, dataItems)
            ELSE Step("return", MarshalItems(dataItems \o u.items), Nil, inBatchMode,
                      dataItems \o u.items)
    ELSE Step("return", res.Data, Nil, inBatchMode, dataItems)

\* OnNoContent that hands out what was accumulated so far
OnNoContentFlush(res, inBatchMode, dataItems) ==
    Step("return", IF inBatchMode THEN MarshalItems(dataItems) ELSE <<>>, Nil,
         inBatchMode, dataItems)

\* lines 149-150: the named results are returned as they are, data never
\* assigned and err nil after the last successful decode
OnNoContent(res, inBatchMode, dataItems) ==
    Step("return", <<>>, Nil, inBatchMode, dataItems)

\* the switch, lines 148-184
OnFrame(res, inBatchMode, dataItems, verbose) ==
    IF res.Code = StatusNoContent
    THEN OnNoContent(res, inBatchMode, dataItems)
    ELSE IF res.Code = StatusAuthenticate
    THEN Step("authenticate", <<>>, Nil, inBatchMode, dataItems)
    ELSE IF res.Code = StatusPartialContent
    THEN OnPartialContent(res, inBatchMode, dataItems)
    ELSE IF res.Code = StatusSuccess
    THEN OnSuccess(res, inBatchMode, dataItems)
    ELSE Step("return", <<>>, StatusError(res.Code, res.Message, verbose),
              inBatchMode, dataItems)

\* lines 140-146 and the switch: one message read from the socket
OnMessage(message, inBatchMode, dataItems, verbose) ==
    IF ~message.ok
    THEN Step("return", <<>>, Err("SyntaxError"), inBatchMode, dataItems)
    ELSE OnFrame(message, inBatchMode, dataItems, verbose)

(***************************************************************************)
(* State.                                                                  *)
(***************************************************************************)
VARIABLES
    Ws,             \* GremlinConnection.Ws: a socket, or 0 for the nil pointer
    VerboseLogging, \* GremlinConnection.VerboseLogging
    Auth,           \* GremlinConnection.Auth
    open,           \* the sockets this session dialled that are not closed
    nextSock,       \* the next socket a successful dial yields
    inbox,          \* frames sent by the server to Ws and not read yet
    pending,        \* request identifiers written to Ws the server has not finished answering
    work,           \* calls started plus frames sent by the server so far
    nextId,         \* the next fresh request identifier
    caller,         \* per caller: position, locals and results of its call
    readErr,        \* the read error Ws keeps once a read failed, or "nil"
    writeErr,       \* the write error Ws keeps once a write failed, or "nil"
    servers,        \* the process-wide registry (line 292)
    nc,             \* the last NewCluster call: inputs, registry before it, error
    cc,             \* CreateConnection: position in its loop, results, dial log
    clusterCalls,   \* cluster calls made
    gt,             \* GremlinTracer: the decorated call in progress or finished
    spans,          \* the spans g.tracer started, with their Finish calls
    nextLog,        \* the calls g.next received, with what it answered
    callLog,        \* the decorated calls that ended, with what they gave
    tracerCalls     \* decorated calls made

sessionVars ==
    <<Ws, VerboseLogging, Auth, open, nextSock, inbox, pending, work, nextId, caller,
      readErr, writeErr>>

clusterVars == <<servers, nc, cc, clusterCalls>>

tracerVars == <<gt, spans, nextLog, callLog, tracerCalls>>

vars == <<sessionVars, clusterVars, tracerVars>>

Callers == {1, 2}

NoRet == [data |-> <<>>, err |-> Nil]

\* a caller that has not called yet.  op is the call in progress or finished,
\* req the envelope Exec was given, requestId the parameter of Authenticate,
\* ret what the last Exec returned, out what the call returned.  The rest
\* records the call: framesRead the messages read, wire the envelopes given
\* to WriteMessage and whether it took them, envs the environment each
\* Authenticate saw, reconnects the calls of Reconnect, dial the error of the
\* last one, nilSocket whether a method was called on the nil socket, wasOpen
\* whether the socket last used was open.
IdleCaller ==
    [pc |-> "idle", op |-> "none", req |-> NoRequest,
     inBatchMode |-> FALSE, dataItems |-> <<>>, requestId |-> 0,
     ret |-> NoRet, out |-> NoRet,
     framesRead |-> <<>>, wire |-> <<>>, envs |-> <<>>, reconnects |-> 0,
     dial |-> Nil, nilSocket |-> FALSE, wasOpen |-> FALSE]

OffCaller == [IdleCaller EXCEPT !.pc = "off"]

NoClusterCall == [done |-> FALSE, args |-> <<>>, env |-> <<>>, prev |-> <<>>, err |-> "nil"]

NoConnectionCall ==
    [pc |-> "idle", i |-> 0, conn |-> 0, server |-> <<>>, err |-> "nil",
     connEstablished |-> FALSE, log |-> <<>>, registry |-> <<>>]

InitClusterVars ==
    /\ servers = <<>>
    /\ nc = NoClusterCall
    /\ cc = NoConnectionCall
    /\ clusterCalls = 0

\* no decorated call has been made; no call is deferred, no span started
NoAnswer == [kind |-> "none", response |-> "", err |-> "nil"]

IdleTracer ==
    [pc |-> "idle", method |-> "none", ctx |-> [span |-> "none", opName |-> ""],
     arg |-> "", span |-> 0, deferred |-> <<>>, res |-> NoAnswer]

InitTracerVars ==
    /\ gt = IdleTracer
    /\ spans = <<>>
    /\ nextLog = <<>>
    /\ callLog = <<>>
    /\ tracerCalls = 0

\* NewVerboseGremlinConnection succeeded (lines 84-104): the session holds
\* the socket it dialled
InitSession(active, verbosities, auths) ==
    /\ Ws = 1
    /\ open = {1}
    /\ nextSock = 2
    /\ VerboseLogging \in verbosities
    /\ Auth \in auths
    /\ inbox = <<>>
    /\ pending = <<>>
    /\ work = 0
    /\ nextId = 1
    /\ caller = [p \in Callers |-> IF p \in active THEN IdleCaller ELSE OffCaller]
    /\ readErr = "nil"
    /\ writeErr = "nil"

\* the session as configured by its creator: verbose with the credentials
\* given, or terse with credentials from the environment or with none
Init ==
    /\ \/ InitSession({1}, {TRUE}, {a \in AuthChoices : Len(a) = 1})
       \/ InitSession({1}, {FALSE}, {a \in AuthChoices : Len(a) # 1})
    /\ InitClusterVars
    /\ InitTracerVars

\* one session shared by two callers
InitConcurrent ==
    /\ InitSession({1, 2}, {FALSE}, {a \in AuthChoices : Len(a) = 1})
    /\ InitClusterVars
    /\ InitTracerVars

InitCluster == InitSession({}, {FALSE}, {<<>>}) /\ InitClusterVars /\ InitTracerVars

InitTracer == InitSession({}, {FALSE}, {<<>>}) /\ InitClusterVars /\ InitTracerVars

(***************************************************************************)
(* The cluster registry.                                                   *)
(***************************************************************************)
\* NewCluster(s...), lines 294-315; the results of an earlier CreateConnection
\* are out of scope by now
NewCluster(s, env) ==
    /\ cc.pc \in {"idle", "done"}
    /\ clusterCalls < MaxClusterCalls
    /\ LET r == NewClusterResult(s, env)
       IN /\ servers' = r.servers
          /\ nc' = [done |-> TRUE, args |-> s, env |-> env, prev |-> servers,
                    err |-> r.err]
    /\ clusterCalls' = clusterCalls + 1
    /\ cc' = NoConnectionCall
    /\ UNCHANGED <<sessionVars, tracerVars>>

\* CreateConnection, lines 333-334: the call starts, nothing dialled yet; the
\* record of the last NewCluster call is dropped
CreateConnectionStart ==
    /\ cc.pc \in {"idle", "done"}
    /\ clusterCalls < MaxClusterCalls
    /\ cc' = [NoConnectionCall EXCEPT !.pc = "loop", !.i = 1, !.registry = servers]
    /\ clusterCalls' = clusterCalls + 1
    /\ nc' = NoClusterCall
    /\ UNCHANGED <<servers, sessionVars, tracerVars>>

\* the loop without its break: a later address that answers replaces the first
CreateConnectionDialNoBreak(ok) ==
    /\ cc.pc = "loop"
    /\ cc.i <= Len(cc.registry)
    /\ cc' = IF ok
             THEN [cc EXCEPT !.connEstablished = TRUE, !.conn = cc.i,
                             !.server = cc.registry[cc.i], !.i = cc.i + 1,
                             !.log = Append(cc.log, [host |-> cc.registry[cc.i],
                                                     ok |-> TRUE])]
             ELSE [cc EXCEPT !.i = cc.i + 1,
                             !.log = Append(cc.log, [host |-> cc.registry[cc.i],
                                                     ok |-> FALSE])]
    /\ UNCHANGED <<servers, nc, clusterCalls, sessionVars, tracerVars>>

\* one iteration of the loop, lines 335-344: net.DialTimeout succeeds or not
CreateConnectionDial(ok) ==
    /\ cc.pc = "loop"
    /\ cc.i <= Len(cc.registry)
    /\ cc' = IF ok
             THEN [cc EXCEPT !.connEstablished = TRUE, !.conn = cc.i,
                             !.server = cc.registry[cc.i],
                             !.log = Append(cc.log, [host |-> cc.registry[cc.i],
                                                     ok |-> TRUE]),
                             !.pc = "after"]
             ELSE [cc EXCEPT !.i = cc.i + 1,
                             !.log = Append(cc.log, [host |-> cc.registry[cc.i],
                                                     ok |-> FALSE])]
    /\ UNCHANGED <<servers, nc, clusterCalls, sessionVars, tracerVars>>

\* the range is exhausted, line 335
CreateConnectionLoopEnd ==
    /\ cc.pc = "loop"
    /\ cc.i > Len(cc.registry)
    /\ cc' = [cc EXCEPT !.pc = "after"]
    /\ UNCHANGED <<servers, nc, clusterCalls, sessionVars, tracerVars>>

\* lines 345-348
CreateConnectionReturn ==
    /\ cc.pc = "after"
    /\ cc' = [cc EXCEPT !.pc = "done",
                        !.err = IF ~cc.connEstablished THEN "NoConnection" ELSE "nil"]
    /\ UNCHANGED <<servers, nc, clusterCalls, sessionVars, tracerVars>>

NextCluster ==
    \/ \E s \in ArgLists : NewCluster(s, <<>>)
    \/ \E env \in EnvStrings : NewCluster(<<>>, env)
    \/ CreateConnectionStart
    \/ \E ok \in BOOLEAN : CreateConnectionDial(ok)
    \/ CreateConnectionLoopEnd
    \/ CreateConnectionReturn

SpecCluster == InitCluster /\ [][NextCluster]_vars

(***************************************************************************)
(* The tracing decorator.                                                  *)
(***************************************************************************)
\* what the decorator reads of a context.Context: the span it carries and the
\* operation name it carries, if any
Contexts == [span : {"none", "parent"}, opName : {"", "op"}]

GremlinQueries == {"q1", "q2"}

Intervals == {"1s"}

\* the first of its arguments that is not empty
CoalesceStrings(a, b) == IF a # "" THEN a ELSE b

OpNameFromContext(ctx) == ctx.opName

\* opentracing.Tags{"type": "gremlin"}, lines 33, 40, 47
GremlinTags == [type |-> "gremlin"]

\* StartSpanFromParent, lines 22-29: the span the tracer starts and the
\* context that carries it
StartSpanFromParent(ctx, method, tags) ==
    LET parent == ctx.span
        opts == IF parent # "none" THEN <<tags, [ChildOf |-> parent]>> ELSE <<tags>>
    IN [span |-> [operationName |-> method, opts |-> opts, finished |-> 0],
        ctx |-> [ctx EXCEPT !.span = "started"]]

\* what g.next may do with a call: return its results, or panic
NextAnswers(name) ==
    [kind : {"return"}, response : IF name = "ExecQueryF" THEN {"", "rows"} ELSE {""},
     err : {"nil", "err"}]
    \cup {[kind |-> "panic", response |-> "", err |-> "nil"]}

\* the first three lines of each method: the operation name, the span, and
\* the deferred span.Finish()
TracerBegin(name, default, ctx, arg) ==
    /\ gt.pc \in {"idle", "done"}
    /\ tracerCalls < MaxTracerCalls
    /\ LET method == CoalesceStrings(OpNameFromContext(ctx), default)
           s == StartSpanFromParent(ctx, method, GremlinTags)
       IN /\ spans' = Append(spans, s.span)
          /\ gt' = [pc |-> "started", method |-> name, ctx |-> ctx, arg |-> arg,
                    span |-> Len(spans) + 1, deferred |-> <<Len(spans) + 1>>,
                    res |-> NoAnswer]
    /\ tracerCalls' = tracerCalls + 1
    /\ UNCHANGED <<nextLog, callLog, sessionVars, clusterVars>>

\* GremlinTracer.ExecQueryF, lines 31-34
TracerExecQueryF(ctx, gremlinQuery) ==
    TracerBegin("ExecQueryF", "Gremlin.ExecQueryF", ctx, gremlinQuery)

\* GremlinTracer.StartMonitor, lines 38-41
TracerStartMonitor(ctx, interval) ==
    TracerBegin("StartMonitor", "Gremlin.StartMonitor", ctx, interval)

\* GremlinTracer.Close, lines 45-48
TracerClose(ctx) == TracerBegin("Close", "Gremlin.Close", ctx, "")

\* the call of g.next is given the context that carries the new span
TracerNextWithSpanContext(answer) ==
    /\ gt.pc = "started"
    /\ answer \in NextAnswers(gt.method)
    /\ nextLog' = Append(nextLog,
            [method |-> gt.method, ctx |-> [gt.ctx EXCEPT !.span = "started"],
             arg |-> gt.arg, answer |-> answer])
    /\ gt' = [gt EXCEPT !.pc = "returning", !.res = answer]
    /\ UNCHANGED <<spans, callLog, tracerCalls, sessionVars, clusterVars>>

\* lines 35, 42, 49: g.next's method of the same name is called with the
\* caller's context and argument (the context StartSpanFromParent returned is
\* dropped); what it returns is what the method returns
TracerNext(answer) ==
    /\ gt.pc = "started"
    /\ answer \in NextAnswers(gt.method)
    /\ nextLog' = Append(nextLog,
            [method |-> gt.method, ctx |-> gt.ctx, arg |-> gt.arg, answer |-> answer])
    /\ gt' = [gt EXCEPT !.pc = "returning", !.res = answer]
    /\ UNCHANGED <<spans, callLog, tracerCalls, sessionVars, clusterVars>>

\* the span is finished only when g.next returned no error
TracerReturnFinishOnSuccess ==
    /\ gt.pc = "returning"
    /\ spans' = IF gt.res.kind = "return" /\ gt.res.err = "nil"
                THEN [spans EXCEPT ![gt.span].finished = @ + 1]
                ELSE spans
    /\ gt' = [gt EXCEPT !.pc = "done", !.deferred = <<>>]
    /\ callLog' = Append(callLog,
            [method |-> gt.method, ctx |-> gt.ctx, arg |-> gt.arg, answer |-> gt.res])
    /\ UNCHANGED <<nextLog, tracerCalls, sessionVars, clusterVars>>

\* the method ends, by return or by panic: the deferred span.Finish() of
\* lines 34, 41, 48 runs, and the caller gets what g.next gave
TracerReturn ==
    /\ gt.pc = "returning"
    /\ spans' = [spans EXCEPT ![gt.deferred[1]].finished = @ + 1]
    /\ gt' = [gt EXCEPT !.pc = "done", !.deferred = <<>>]
    /\ callLog' = Append(callLog,
            [method |-> gt.method, ctx |-> gt.ctx, arg |-> gt.arg, answer |-> gt.res])
    /\ UNCHANGED <<nextLog, tracerCalls, sessionVars, clusterVars>>

NextTracer ==
    \/ \E ctx \in Contexts, q \in GremlinQueries : TracerExecQueryF(ctx, q)
    \/ \E ctx \in Contexts, i \in Intervals : TracerStartMonitor(ctx, i)
    \/ \E ctx \in Contexts : TracerClose(ctx)
    \/ \E answer \in NextAnswers("ExecQueryF") : TracerNext(answer)
    \/ TracerReturn

SpecTracer == InitTracer /\ [][NextTracer]_vars

(***************************************************************************)
(* The session.                                                            *)
(***************************************************************************)
\* a caller may start a call when it is not inside one
CanCall(p) ==
    /\ caller[p].pc \in {"idle", "done"}
    /\ work < MaxWork

StartCall(op) == [IdleCaller EXCEPT !.pc = "write", !.op = op]

\* Exec returns (data, err) to its caller: to the caller of ExecQuery, or to
\* MaintainConnection at line 275
ExecReturn(c, data, err) ==
    [c EXCEPT !.ret = [data |-> data, err |-> err],
              !.out = IF c.op = "ExecQuery" THEN [data |-> data, err |-> err] ELSE c.out,
              !.pc = IF c.op = "ExecQuery" THEN "done" ELSE "probed"]

\* ExecQuery(query), lines 111-117, up to the write of Exec
ExecQuery(p) ==
    /\ CanCall(p)
    /\ work' = work + 1
    /\ caller' = [caller EXCEPT ![p] =
                    [StartCall("ExecQuery") EXCEPT
                        !.req = QueryRequest(nextId, <<"g.V()">>)]]
    /\ nextId' = nextId + 1
    /\ UNCHANGED <<Ws, VerboseLogging, Auth, open, nextSock, inbox, pending,
                   readErr, writeErr, clusterVars, tracerVars>>

\* MaintainConnection(urlStr), lines 272-275, up to the write of the probe
MaintainConnection(p) ==
    /\ CanCall(p)
    /\ work' = work + 1
    /\ caller' = [caller EXCEPT ![p] =
                    [StartCall("MaintainConnection") EXCEPT
                        !.req = QueryRequest(nextId, <<"g.V().limit(0)">>)]]
    /\ nextId' = nextId + 1
    /\ UNCHANGED <<Ws, VerboseLogging, Auth, open, nextSock, inbox, pending,
                   readErr, writeErr, clusterVars, tracerVars>>

\* ExecWrite under a lock held from the write to the return of Exec
ExecWriteLocked(p, werr) ==
    /\ caller[p].pc = "write"
    /\ \A q \in Callers \ {p} : caller[q].pc \notin {"read", "auth"}
    /\ Ws # 0
    /\ IF werr = "nil"
       THEN /\ Ws \in open
            /\ writeErr = "nil"
            /\ UNCHANGED writeErr
            /\ pending' = Append(pending, caller[p].req.RequestId)
            /\ caller' = [caller EXCEPT
                    ![p].pc = "read", ![p].inBatchMode = FALSE, ![p].dataItems = <<>>,
                    ![p].wire = Append(@, [req |-> caller[p].req, ok |-> TRUE]),
                    ![p].wasOpen = TRUE]
       ELSE /\ Ws \in open \/ werr = "NetOpError"
            /\ writeErr \in {"nil", werr}
            /\ writeErr' = werr
            /\ caller' = [caller EXCEPT ![p] =
                    ExecReturn([caller[p] EXCEPT
                                   !.wire = Append(@, [req |-> caller[p].req, ok |-> FALSE]),
                                   !.wasOpen = Ws \in open],
                               <<>>, Err(werr))]
            /\ UNCHANGED pending
    /\ UNCHANGED <<Ws, VerboseLogging, Auth, open, nextSock, inbox, work, nextId,
                   readErr, clusterVars, tracerVars>>

\* Exec, lines 119-131: c.Ws.WriteMessage.  Without a socket the method call
\* on the nil pointer panics; a closed socket refuses the write; an open one
\* takes the envelope (werr = "nil") or fails, and a socket whose write failed
\* fails every later write the same way.
ExecWrite(p, werr) ==
    /\ caller[p].pc = "write"
    /\ IF Ws = 0
       THEN /\ werr = "nil"
            /\ caller' = [caller EXCEPT ![p].pc = "panic", ![p].nilSocket = TRUE]
            /\ UNCHANGED <<pending, writeErr>>
       ELSE IF werr = "nil"
       THEN /\ Ws \in open
            /\ writeErr = "nil"
            /\ UNCHANGED writeErr
            /\ pending' = Append(pending, caller[p].req.RequestId)
            /\ caller' = [caller EXCEPT
                    ![p].pc = "read", ![p].inBatchMode = FALSE, ![p].dataItems = <<>>,
                    ![p].wire = Append(@, [req |-> caller[p].req, ok |-> TRUE]),
                    ![p].wasOpen = TRUE]
       ELSE /\ Ws \in open \/ werr = "NetOpError"
            /\ writeErr \in {"nil", werr}
            /\ writeErr' = werr
            /\ caller' = [caller EXCEPT ![p] =
                    ExecReturn([caller[p] EXCEPT
                                   !.wire = Append(@, [req |-> caller[p].req, ok |-> FALSE]),
                                   !.wasOpen = Ws \in open],
                               <<>>, Err(werr))]
            /\ UNCHANGED pending
    /\ UNCHANGED <<Ws, VerboseLogging, Auth, open, nextSock, inbox, work, nextId,
                   readErr, clusterVars, tracerVars>>

\* the server sends one frame of its reply to the oldest unanswered request;
\* every frame but a partial-content one ends the reply
ServerSend(f) ==
    /\ Ws \in open
    /\ pending # <<>>
    /\ work < MaxWork
    /\ f \in ReplyFrames(Head(pending))
    /\ inbox' = Append(inbox, f)
    /\ pending' = IF f.ok /\ f.Code = StatusPartialContent THEN pending ELSE Tail(pending)
    /\ work' = work + 1
    /\ UNCHANGED <<Ws, VerboseLogging, Auth, open, nextSock, nextId, caller,
                   readErr, writeErr, clusterVars, tracerVars>>

\* ReadResponse, one turn of the loop (lines 139-185) that reads a message
ReadResponse(p) ==
    /\ caller[p].pc = "read"
    /\ Ws \in open
    /\ readErr = "nil"
    /\ inbox # <<>>
    /\ LET c == caller[p]
           message == Head(inbox)
           r == OnMessage(message, c.inBatchMode, c.dataItems, VerboseLogging)
           c1 == [c EXCEPT !.framesRead = Append(@, message),
                           !.inBatchMode = r.inBatchMode,
                           !.dataItems = r.dataItems]
       IN caller' = [caller EXCEPT ![p] =
                IF r.next = "loop" THEN c1
                ELSE IF r.next = "authenticate"
                THEN [c1 EXCEPT !.pc = "auth", !.requestId = message.RequestId]
                ELSE ExecReturn(c1, r.data, r.err)]
    /\ inbox' = Tail(inbox)
    /\ UNCHANGED <<Ws, VerboseLogging, Auth, open, nextSock, pending, work, nextId,
                   readErr, writeErr, clusterVars, tracerVars>>

\* ReadFails that writes the envelope again instead of returning
ReadFailsResends(p, rerr) ==
    /\ caller[p].pc = "read"
    /\ Ws \in open
    /\ readErr \in {"nil", rerr}
    /\ readErr' = rerr
    /\ caller' = [caller EXCEPT ![p].pc = "write"]
    /\ UNCHANGED <<Ws, VerboseLogging, Auth, open, nextSock, inbox, pending, work,
                   nextId, writeErr, clusterVars, tracerVars>>

\* ReadResponse, lines 140-142: c.Ws.ReadMessage fails (panics without a
\* socket); a socket whose read failed fails every later read the same way
ReadFails(p, rerr) ==
    /\ caller[p].pc = "read"
    /\ IF Ws = 0
       THEN /\ caller' = [caller EXCEPT ![p].pc = "panic", ![p].nilSocket = TRUE]
            /\ UNCHANGED readErr
       ELSE /\ Ws \in open \/ rerr = "NetOpError"
            /\ readErr \in {"nil", rerr}
            /\ readErr' = rerr
            /\ caller' = [caller EXCEPT ![p] = ExecReturn(caller[p], <<>>, Err(rerr))]
    /\ UNCHANGED <<Ws, VerboseLogging, Auth, open, nextSock, inbox, pending, work,
                   nextId, writeErr, clusterVars, tracerVars>>

\* Authenticate(requestId), lines 249-267, up to the write of Exec; env is the
\* environment at the call
Authenticate(p, env) ==
    /\ caller[p].pc = "auth"
    /\ LET c == [caller[p] EXCEPT !.envs = Append(@, env)]
           a == NewAuthInfo(Auth, env)
       IN caller' = [caller EXCEPT ![p] =
                IF a.err # Nil THEN ExecReturn(c, <<>>, a.err)
                ELSE [c EXCEPT !.pc = "write", !.req = AuthRequest(c.requestId, a.auth)]]
    /\ UNCHANGED <<Ws, VerboseLogging, Auth, open, nextSock, inbox, pending, work,
                   nextId, readErr, writeErr, clusterVars, tracerVars>>

\* Reconnect(urlStr), lines 188-193, on the session's fields: the new socket,
\* or nil when the dial fails; the socket held before is not closed
ReconnectEffect(dialOk) ==
    /\ Ws' = IF dialOk THEN nextSock ELSE 0
    /\ open' = IF dialOk THEN open \cup {nextSock} ELSE open
    /\ nextSock' = IF dialOk THEN nextSock + 1 ELSE nextSock
    /\ inbox' = <<>>
    /\ pending' = <<>>
    /\ readErr' = "nil"
    /\ writeErr' = "nil"

DialErr(dialOk) == IF dialOk THEN Nil ELSE Err("DialError")

\* MaintainConnection, lines 276-289: after the probe returned
MaintainConnectionDecide(p, dialOk) ==
    /\ caller[p].pc = "probed"
    /\ LET c == caller[p]
           err == c.ret.err
       IN IF err = Nil
          THEN /\ caller' = [caller EXCEPT ![p].pc = "done", ![p].out = NoRet]
               /\ dialOk
               /\ UNCHANGED <<Ws, open, nextSock, inbox, pending, readErr, writeErr>>
          ELSE IF ~IsNetErr(err)
          THEN /\ caller' = [caller EXCEPT ![p].pc = "done",
                                           ![p].out = [data |-> <<>>, err |-> err]]
               /\ dialOk
               /\ UNCHANGED <<Ws, open, nextSock, inbox, pending, readErr, writeErr>>
          ELSE /\ ReconnectEffect(dialOk)
               /\ caller' = [caller EXCEPT
                      ![p].pc = "done", ![p].reconnects = @ + 1,
                      ![p].dial = DialErr(dialOk),
                      ![p].out = [data |-> <<>>, err |-> DialErr(dialOk)]]
    /\ UNCHANGED <<VerboseLogging, Auth, work, nextId, clusterVars, tracerVars>>

\* Reconnect(urlStr) called by the user of the session
Reconnect(p, dialOk) ==
    /\ CanCall(p)
    /\ work' = work + 1
    /\ ReconnectEffect(dialOk)
    /\ caller' = [caller EXCEPT ![p] =
            [StartCall("Reconnect") EXCEPT
                !.pc = "done", !.reconnects = 1, !.dial = DialErr(dialOk),
                !.out = [data |-> <<>>, err |-> DialErr(dialOk)]]]
    /\ UNCHANGED <<VerboseLogging, Auth, nextId, clusterVars, tracerVars>>

\* Close(), lines 195-197: closes the socket held now; the handle stays
Close(p) ==
    /\ CanCall(p)
    /\ work' = work + 1
    /\ IF Ws = 0
       THEN /\ caller' = [caller EXCEPT ![p] =
                    [StartCall("Close") EXCEPT !.pc = "panic",
                                                          !.nilSocket = TRUE]]
            /\ UNCHANGED open
       ELSE /\ caller' = [caller EXCEPT ![p] =
                    [StartCall("Close") EXCEPT
                        !.pc = "done", !.wasOpen = Ws \in open,
                        !.out = [data |-> <<>>,
                                 err |-> IF Ws \in open THEN Nil ELSE Err("NetOpError")]]]
            /\ open' = open \ {Ws}
    /\ UNCHANGED <<Ws, VerboseLogging, Auth, nextSock, inbox, pending, nextId,
                   readErr, writeErr, clusterVars, tracerVars>>

Next ==
    \/ \E p \in Callers : ExecQuery(p)
    \/ \E p \in Callers : MaintainConnection(p)
    \/ \E p \in Callers, werr \in {"nil"} \cup TransportErrs : ExecWrite(p, werr)
    \/ \E f \in ReplyFrames(IF pending = <<>> THEN 0 ELSE Head(pending)) : ServerSend(f)
    \/ \E p \in Callers : ReadResponse(p)
    \/ \E p \in Callers, rerr \in TransportErrs : ReadFails(p, rerr)
    \/ \E p \in Callers, env \in EnvChoices : Authenticate(p, env)
    \/ \E p \in Callers, dialOk \in BOOLEAN : MaintainConnectionDecide(p, dialOk)
    \/ \E p \in Callers, dialOk \in BOOLEAN : Reconnect(p, dialOk)
    \/ \E p \in Callers : Close(p)

Spec == Init /\ [][Next]_vars

\* the frames of a reply of one or more frames that carries items
ItemFrames(rid) ==
    {f \in ReplyFrames(rid) :
        /\ f.ok
        /\ f.Code \in {StatusSuccess, StatusPartialContent}
        /\ f.Data = <<"[", "1", "]">>}

\* two callers of ExecQuery on one session
NextConcurrent ==
    \/ \E p \in Callers : ExecQuery(p)
    \/ \E p \in Callers, werr \in {"nil"} \cup TransportErrs : ExecWrite(p, werr)
    \/ \E f \in ItemFrames(IF pending = <<>> THEN 0 ELSE Head(pending)) : ServerSend(f)
    \/ \E p \in Callers : ReadResponse(p)
    \/ \E p \in Callers, rerr \in TransportErrs : ReadFails(p, rerr)

SpecConcurrent == InitConcurrent /\ [][NextConcurrent]_vars

(***************************************************************************)
(* What the properties speak of.                                           *)
(***************************************************************************)
\* the caller's Exec has returned
Returned(c) == c.pc \in {"done", "probed"} /\ c.op \in {"ExecQuery", "MaintainConnection"}

IsChallenge(f) == f.ok /\ f.Code = StatusAuthenticate

\* the index of the last authentication challenge among frames fr, or 0
LastChallenge(fr) ==
    IF \E i \in 1..Len(fr) : IsChallenge(fr[i])
    THEN CHOOSE i \in 1..Len(fr) :
            IsChallenge(fr[i]) /\ \A j \in (i + 1)..Len(fr) : ~IsChallenge(fr[j])
    ELSE 0

\* the frames read by the invocation of ReadResponse that is running or ran
\* last: a challenge ends an invocation, the replay starts the next one
Hist(c) == SubText(c.framesRead, LastChallenge(c.framesRead) + 1, Len(c.framesRead))

HasStatus(f, code) == f.ok /\ f.Code = code

\* h is N partial-content frames followed by one success frame
IsBatchReply(h) ==
    /\ Len(h) >= 1
    /\ HasStatus(h[Len(h)], StatusSuccess)
    /\ \A i \in 1..(Len(h) - 1) : HasStatus(h[i], StatusPartialContent)

Decodable(h) == \A i \in 1..Len(h) : UnmarshalItems(h[i].Data).err = "nil"

\* the decoded items of the frames of h, in arrival order, each compacted
AllItems(h) ==
    LET per == [i \in 1..Len(h) |-> UnmarshalItems(h[i].Data).items]
        all == Flatten(per)
    IN [k \in 1..Len(all) |-> Compact(all[k])]

\* text t is one JSON array that holds exactly items
IsArrayOf(t, items) ==
    LET u == UnmarshalItems(t)
    IN /\ u.err = "nil"
       /\ t[SkipWs(t, 1)] = "["
       /\ [k \in 1..Len(u.items) |-> Compact(u.items[k])] = items

\* C1: N >= 0 partial-content frames followed by one success frame, each with
\* an array as its result-data, make ReadResponse return, with no error, one
\* array that holds the items of all the frames in arrival order.
C1_BatchReplyIsOneArray ==
    \A p \in Callers :
        LET c == caller[p] IN
        (Returned(c) /\ IsBatchReply(Hist(c)) /\ Decodable(Hist(c)))
            => /\ c.ret.err = Nil
               /\ IsArrayOf(c.ret.data, AllItems(Hist(c)))

\* C2: a success frame read first is answered with its result-data, byte for
\* byte, and a nil error.
C2_SingleSuccessVerbatim ==
    \A p \in Callers :
        LET c == caller[p] IN
        (Returned(c) /\ Len(Hist(c)) = 1 /\ HasStatus(Hist(c)[1], StatusSuccess))
            => c.ret = [data |-> Hist(c)[1].Data, err |-> Nil]

C2_Witness ==
    \E p \in Callers :
        LET c == caller[p] IN
        /\ Returned(c) /\ Len(Hist(c)) = 1 /\ HasStatus(Hist(c)[1], StatusSuccess)
        /\ Hist(c)[1].Data = <<"[", "2", ",", " ", "1", "]">>
        /\ c.ret.data = <<"[", "2", ",", " ", "1", "]">>

\* C3: a no-content frame ends ReadResponse with an empty result and a nil
\* error, whatever its payload and whatever was accumulated before it.
C3_NoContentIsEmpty ==
    \A p \in Callers :
        LET c == caller[p]
            h == Hist(c)
        IN (Len(h) >= 1 /\ HasStatus(h[Len(h)], StatusNoContent))
              => /\ Returned(c)
                 /\ c.ret = [data |-> <<>>, err |-> Nil]

C3_Witness ==
    \E p \in Callers :
        LET c == caller[p]
            h == Hist(c)
        IN /\ Returned(c) /\ Len(h) = 2
           /\ HasStatus(h[1], StatusPartialContent) /\ h[1].Data = <<"[", "1", "]">>
           /\ HasStatus(h[2], StatusNoContent) /\ h[2].Data # <<>>
           /\ c.ret = NoRet

HandledStatuses ==
    {StatusNoContent, StatusAuthenticate, StatusPartialContent, StatusSuccess}

\* C10: a frame with any other status ends ReadResponse with no result and an
\* error: the generic message for a code the table does not hold, the table's
\* message alone with verbosity off, the message with the code and the
\* server's detail with verbosity on.
C10_ErrorStatus ==
    \A p \in Callers :
        LET c == caller[p]
            h == Hist(c)
            f == h[Len(h)]
        IN (Len(h) >= 1 /\ f.ok /\ f.Code \notin HandledStatuses)
              => /\ Returned(c)
                 /\ c.ret.data = <<>>
                 /\ c.ret.err.kind = "errors.New"
                 /\ f.Code \notin DOMAIN ErrorMsg
                        => c.ret.err = ErrorsNew("An unknown error occured")
                 /\ (f.Code \in DOMAIN ErrorMsg /\ ~VerboseLogging)
                        => c.ret.err = ErrorsNew(ErrorMsg[f.Code])
                 /\ (f.Code \in DOMAIN ErrorMsg /\ VerboseLogging)
                        => /\ c.ret.err.msg = ErrorMsg[f.Code]
                           /\ c.ret.err.code = f.Code
                           /\ c.ret.err.detail = f.Message

C10_Witness ==
    \E p \in Callers :
        LET c == caller[p]
            h == Hist(c)
        IN /\ Returned(c) /\ Len(h) = 2 /\ VerboseLogging
           /\ HasStatus(h[1], StatusPartialContent)
           /\ HasStatus(h[2], StatusServerError)
           /\ c.ret.err.detail = "detail"

\* the inverse of base64.StdEncoding: the bytes a padded text decodes to
B64Index(ch) == (CHOOSE i \in 1..64 : B64Alphabet[i] = ch) - 1

RECURSIVE B64Decode(_)
B64Decode(t) ==
    IF Len(t) < 4 THEN <<>>
    ELSE LET c1 == B64Index(t[1])
             c2 == B64Index(t[2])
             b1 == c1 * 4 + c2 \div 16
         IN IF t[3] = "=" THEN <<b1>>
            ELSE LET c3 == B64Index(t[3])
                     b2 == (c2 % 16) * 16 + c3 \div 4
                 IN IF t[4] = "=" THEN <<b1, b2>>
                    ELSE <<b1, b2, (c3 % 4) * 64 + B64Index(t[4])>>
                         \o B64Decode(SubText(t, 5, Len(t)))

\* the envelopes of the authentication step among those given to WriteMessage
Replays(c) == SelectSeq(c.wire, LAMBDA w : w.req.Op = "authentication")

\* the challenges read
Challenges(c) == SelectSeq(c.framesRead, IsChallenge)

EnvMissing(env) == ~env.user.set \/ ~env.pass.set

UsesEnv(options) == \E i \in 1..Len(options) : options[i].kind = "env"

\* the credentials the options configure when none of them fails: the last
\* option decides, and no option leaves them empty
ConfiguredUser(options, env) ==
    IF options = <<>> THEN <<>>
    ELSE IF options[Len(options)].kind = "env" THEN env.user.val
    ELSE options[Len(options)].user

ConfiguredPass(options, env) ==
    IF options = <<>> THEN <<>>
    ELSE IF options[Len(options)].kind = "env" THEN env.pass.val
    ELSE options[Len(options)].pass

\* C4: every authentication challenge read, with request identifier R and
\* credentials that configure, is answered by exactly one replay envelope given
\* to Exec's WriteMessage: its identifier is R, its processor and operation
\* are the fixed pair, and its only argument is the base64 text of
\* 0, user, 0, pass.
C4_ChallengeReplayed ==
    \A p \in Callers :
        LET c == caller[p]
            ch == Challenges(c)
            rp == Replays(c)
        IN /\ Len(rp) <= Len(ch) /\ Len(ch) <= Len(rp) + 1
           /\ \A i \in 1..Len(rp) :
                /\ rp[i].req.RequestId = ch[i].RequestId
                /\ rp[i].req.Processor = "trasversal"
                /\ rp[i].req.Op = "authentication"
                /\ rp[i].req.Args.gremlin = <<>>
                /\ B64Decode(rp[i].req.Args.sasl) =
                      <<0>> \o ConfiguredUser(Auth, c.envs[i]) \o <<0>>
                            \o ConfiguredPass(Auth, c.envs[i])
           /\ (Len(ch) = Len(rp) + 1) =>
                \/ c.pc = "auth"
                \/ /\ c.pc = "write"
                   /\ c.req.RequestId = ch[Len(ch)].RequestId
                   /\ c.req.Op = "authentication"
                \/ /\ Returned(c)
                   /\ UsesEnv(Auth) /\ EnvMissing(c.envs[Len(ch)])

C4_Witness ==
    \E p \in Callers :
        LET c == caller[p]
        IN /\ Len(Challenges(c)) = 1
           /\ Len(Replays(c)) = 1
           /\ Replays(c)[1].ok
           /\ UsesEnv(Auth)
           /\ B64Decode(Replays(c)[1].req.Args.sasl) = <<0, 101, 117, 255, 0>>

\* C5: when an option reads the environment and GREMLIN_USER or GREMLIN_PASS
\* is missing there, Authenticate returns the configuration error at once:
\* the challenge is the last frame read and no replay is given to the socket.
C5_MissingEnvNoNetwork ==
    \A p \in Callers :
        LET c == caller[p]
        IN \A i \in 1..Len(c.envs) :
            (UsesEnv(Auth) /\ EnvMissing(c.envs[i]))
                => /\ i = Len(c.envs)
                   /\ Returned(c)
                   /\ c.ret.data = <<>>
                   /\ c.ret.err =
                        IF ~c.envs[i].user.set
                        THEN ErrorsNew("Variable GREMLIN_USER is not set")
                        ELSE ErrorsNew("Variable GREMLIN_PASS is not set")
                   /\ IsChallenge(c.framesRead[Len(c.framesRead)])
                   /\ Len(Challenges(c)) = i
                   /\ Len(Replays(c)) = i - 1
                   /\ Len(c.wire) = i

C5_Witness ==
    \E p \in Callers :
        LET c == caller[p]
        IN /\ Returned(c)
           /\ Len(c.envs) = 1
           /\ Auth = <<OptAuthUserPass(AuthUser, AuthPass), OptAuthEnv>>
           /\ c.envs[1].user.set /\ ~c.envs[1].pass.set
           /\ c.ret.err = ErrorsNew("Variable GREMLIN_PASS is not set")

IsTransport(err) == err.kind \in TransportErrs

\* C6: MaintainConnection probes once; a probe that succeeds ends it with
\* success and no Reconnect; a probe that fails with a transport error makes it
\* call Reconnect once and return what Reconnect returned; any other error of
\* the probe is returned as it is, with no Reconnect.
C6_MaintainConnection ==
    \A p \in Callers :
        LET c == caller[p]
            queries == SelectSeq(c.wire, LAMBDA w : w.req.Op = "eval")
        IN (c.op = "MaintainConnection" /\ c.pc = "done")
              => /\ Len(queries) = 1
                 /\ c.ret.err = Nil => (c.out.err = Nil /\ c.reconnects = 0)
                 /\ IsTransport(c.ret.err) => (c.reconnects = 1 /\ c.out.err = c.dial)
                 /\ (c.ret.err # Nil /\ ~IsTransport(c.ret.err))
                        => (c.out.err = c.ret.err /\ c.reconnects = 0)

\* C7: once a dial of Reconnect has failed the session holds no socket, and
\* every Exec on it returns an error until a Reconnect succeeds.
C7_ExecWithoutSocketReturnsError ==
    \A p \in Callers :
        LET c == caller[p]
        IN (c.op \in {"ExecQuery", "MaintainConnection"} /\ c.nilSocket)
              => (Returned(c) /\ c.ret.err # Nil)

\* C14: the lifetime of every socket the session opens is scoped to the
\* session: Reconnect closes the socket it replaces and Close closes the
\* current one, so once Close has returned, after any calls of ExecQuery,
\* MaintainConnection and Reconnect, no socket the session opened is open.
C14_NoSocketOutlivesSession ==
    \A p \in Callers :
        (caller[p].op = "Close" /\ caller[p].pc = "done") => open = {}

\* C19: Exec never returns a result together with an error: whenever it
\* returns an error (read or write failure, undecodable frame or items, error
\* status, failed authentication) the result is empty, also when items of
\* earlier partial-content frames had been accumulated; and ExecQuery hands
\* its caller the same pair.
C19_NoResultWithError ==
    \A p \in Callers :
        LET c == caller[p]
        IN (Returned(c) /\ c.ret.err # Nil) =>
              /\ c.ret.data = <<>>
              /\ c.op = "ExecQuery" => c.out = c.ret

C19_Witness ==
    \E p \in Callers :
        LET c == caller[p]
        IN /\ Returned(c)
           /\ c.op = "ExecQuery"
           /\ c.ret.err.kind = "errors.New"
           /\ c.dataItems # <<>>
           /\ c.ret.data = <<>>

\* a frame that ends the read loop: one that does not decode, one whose status
\* is not partial-content, or a partial-content one whose items do not decode
Terminal(f) ==
    \/ ~f.ok
    \/ f.Code # StatusPartialContent
    \/ UnmarshalItems(f.Data).err # "nil"

\* C15: ReadResponse surfaces nothing before a terminal frame.  While it
\* reads, nothing has been returned; a frame with partial-content status whose
\* items decode only adds its items and the loop reads on; the loop ends only
\* by reading a frame with another status (no-content, success, authenticate,
\* error) or an undecodable one, or by a failed read; and with no frame to
\* read the call does not move unless the read fails.
C15_NothingBeforeTerminalFrame ==
    [][\A p \in Callers :
          LET c == caller[p]
              d == caller'[p]
              failed == /\ Returned(d) /\ IsTransport(d.ret.err) /\ d.ret.data = <<>>
                        /\ d.framesRead = c.framesRead /\ inbox' = inbox
              took == /\ inbox # <<>> /\ inbox' = Tail(inbox)
                      /\ d.framesRead = Append(c.framesRead, Head(inbox))
          IN c.pc = "read" =>
                /\ c.ret = NoRet /\ c.out = NoRet
                /\ d # c => (failed \/ took)
                /\ (d # c /\ inbox = <<>>) => failed
                /\ (d # c /\ ~failed) =>
                      IF Terminal(Head(inbox))
                      THEN d.pc # "read"
                      ELSE /\ d.pc = "read" /\ d.ret = NoRet /\ d.out = NoRet
                           /\ d.dataItems =
                                 c.dataItems \o UnmarshalItems(Head(inbox).Data).items
      ]_vars

C15_Witness ==
    \E p \in Callers :
        LET c == caller[p]
        IN /\ c.pc = "read"
           /\ Len(c.framesRead) = 3
           /\ \A i \in 1..3 : ~Terminal(c.framesRead[i])
           /\ Len(c.dataItems) >= 3
           /\ c.ret = NoRet
           /\ inbox = <<>>

\* C16: the authentication exchange is one-shot: within one Exec started by
\* a caller at most one replay envelope is sent, whatever the server answers
\* to the replay.
C16_AtMostOneReplay ==
    \A p \in Callers : Len(Replays(caller[p])) <= 1

\* the caller is inside Exec
InExec(c) == c.pc \in {"write", "read", "auth"}

\* C18: outside the health check nothing is retried.  While a caller is
\* inside Exec (of ExecQuery, of the replay of Authenticate, of the probe) no
\* step replaces or closes the session's socket and Reconnect is not called; a
\* write that fails makes Exec return that error with no frame read; and a
\* read step either reads on, turns to Authenticate, or makes Exec return, a
\* failed read returning its error, with no envelope written again.  ExecQuery
\* hands its caller what Exec returned.
C18_NothingRetried ==
    [][\A p \in Callers :
          LET c == caller[p]
              d == caller'[p]
          IN /\ InExec(c) =>
                   /\ Ws' = Ws /\ open' = open /\ nextSock' = nextSock
                   /\ d.reconnects = 0
             /\ (c.pc = "write" /\ d.wire # c.wire /\ ~d.wire[Len(d.wire)].ok) =>
                   /\ Returned(d)
                   /\ IsTransport(d.ret.err) /\ d.ret.data = <<>>
                   /\ d.framesRead = c.framesRead /\ inbox' = inbox
             /\ (c.pc = "read" /\ d # c) =>
                   /\ d.wire = c.wire /\ pending' = pending
                   /\ d.pc \in {"read", "auth"} \/ Returned(d)
                   /\ readErr' # readErr => (Returned(d) /\ d.ret.err = Err(readErr'))
             /\ (InExec(c) /\ Returned(d) /\ d.op = "ExecQuery") =>
                   (d.pc = "done" /\ d.out = d.ret)
      ]_vars

C18_Witness ==
    \E p \in Callers :
        LET c == caller[p]
        IN /\ Returned(c)
           /\ c.op = "ExecQuery"
           /\ IsTransport(c.ret.err)
           /\ readErr # "nil"
           /\ Len(c.framesRead) >= 1
           /\ Len(c.wire) = 1 /\ c.wire[1].ok
           /\ Ws = 1 /\ open = {1}

\* C20: with one caller, whose calls follow one another, every frame an Exec
\* reads is a frame the server sent in reply to that Exec's own request (the
\* replay of an authentication carries the same identifier): no result is
\* built from a frame that answers an earlier request of the session.
C20_ReadsOwnReplyOnly ==
    LET c == caller[1]
    IN caller[2].pc = "off" =>
          \A i \in 1..Len(c.framesRead) :
             c.framesRead[i].ok =>
                c.framesRead[i].RequestId = c.wire[1].req.RequestId

\* C17: the session has no lock.  With two callers on one session, a caller
\* that is about to write its envelope can do so while the other is between
\* its own write and its return, and whichever caller reads next takes the
\* next frame on the socket, whichever request it answers; so a caller's read
\* loop can consume a frame sent in reply to the other caller's request.
C17_NoLock ==
    \A p \in Callers : \A q \in Callers \ {p} :
        /\ (/\ caller[p].pc = "read" /\ caller[q].pc = "write"
            /\ Ws \in open /\ writeErr = "nil")
              => ENABLED ExecWrite(q, "nil")
        /\ (/\ caller[p].pc = "read" /\ caller[q].pc = "read"
            /\ Ws \in open /\ readErr = "nil" /\ inbox # <<>>)
              => ENABLED ReadResponse(p) /\ ENABLED ReadResponse(q)

C17_Witness ==
    \E p \in Callers : \E q \in Callers \ {p} :
        LET c == caller[p]
            o == caller[q]
        IN /\ c.op = "ExecQuery" /\ o.op = "ExecQuery"
           /\ o.pc = "read" /\ Len(o.wire) = 1 /\ o.wire[1].ok /\ o.framesRead = <<>>
           /\ Returned(c) /\ Len(c.wire) = 1 /\ c.wire[1].ok
           /\ c.framesRead # <<>>
           /\ \A i \in 1..Len(c.framesRead) :
                 /\ c.framesRead[i].ok
                 /\ c.framesRead[i].RequestId = o.req.RequestId
           /\ c.req.RequestId # o.req.RequestId
           /\ c.ret.err = Nil /\ c.ret.data # <<>>

\* the addresses a NewCluster call names, in order: its arguments, or the
\* trimmed entries of the environment value
GivenAddresses(call) ==
    IF call.args # <<>> THEN call.args
    ELSE LET entries == Split(TrimSpace(call.env))
         IN [i \in 1..Len(entries) |-> TrimSpace(entries[i])]

\* C8: NewCluster never commits a part of its input: after a call that failed
\* the registry holds none of the entries the call parsed before the failing
\* one (it is empty, or what it was before), and after a call that succeeded
\* it is exactly the given addresses, in the given order.
C8_NoPartialCommit ==
    nc.done =>
        /\ nc.err # "nil" => servers \in {<<>>, nc.prev}
        /\ nc.err = "nil" => servers = GivenAddresses(nc)

\* C9: CreateConnection dials the addresses of the registry in registry order
\* and stops at the first dial that succeeds, returning that connection and
\* address with no error; it returns the error exactly when every address of
\* the registry was dialled and failed (the empty registry included).
C9_FirstReachable ==
    cc.pc = "done" =>
        LET n == Len(cc.log) IN
        /\ n <= Len(cc.registry)
        /\ \A i \in 1..n : cc.log[i].host = cc.registry[i]
        /\ \A i \in 1..(n - 1) : ~cc.log[i].ok
        /\ (cc.err = "nil") <=> (n >= 1 /\ cc.log[n].ok)
        /\ cc.err = "nil" => (cc.conn = n /\ cc.server = cc.registry[n])
        /\ cc.err # "nil" =>
              /\ cc.err = "NoConnection"
              /\ n = Len(cc.registry)
              /\ cc.conn = 0

C9_Witness ==
    /\ cc.pc = "done"
    /\ cc.registry = << <<"a">>, <<"b">> >>
    /\ cc.log = << [host |-> <<"a">>, ok |-> FALSE], [host |-> <<"b">>, ok |-> TRUE] >>
    /\ cc.server = <<"b">>
    /\ cc.err = "nil"


\* C13: after every NewCluster call, with explicit addresses or from the
\* environment value, either the call returned an error or the registry is
\* not empty; and with no explicit addresses an absent or empty (or blank)
\* environment value makes the call fail.
C13_ConfiguredOrFailed ==
    nc.done =>
        /\ nc.err # "nil" \/ Len(servers) >= 1
        /\ (nc.args = <<>> /\ TrimSpace(nc.env) = <<>>) => nc.err # "nil"

C13_Witness ==
    /\ nc.done
    /\ nc.args = <<>>
    /\ nc.env = <<>>
    /\ nc.err = "NoServersSet"
    /\ nc.prev # <<>>
    /\ servers = <<>>

(***************************************************************************)
(* The tracing decorator's properties.                                     *)
(***************************************************************************)
\* the call the decorator is in or has just ended, as a log entry
TracerEntry ==
    [method |-> gt.method, ctx |-> gt.ctx, arg |-> gt.arg, answer |-> gt.res]

\* C11: each decorated call (ExecQueryF, StartMonitor, Close) invokes the same
\* method of the wrapped component exactly once, with the caller's context
\* and argument, and gives the caller exactly the result and error (or the
\* panic) the wrapped component gave: the sequence of calls the wrapped
\* component receives and of answers it gives is the sequence of calls made
\* of the decorator and of answers the callers got.
C11_DecoratorTransparent ==
    /\ gt.pc \in {"idle", "started", "done"} => nextLog = callLog
    /\ gt.pc = "returning" => nextLog = Append(callLog, TracerEntry)
    /\ gt.pc = "done" => callLog # <<>> /\ callLog[Len(callLog)] = TracerEntry
    /\ Len(callLog) = IF gt.pc \in {"started", "returning"}
                      THEN tracerCalls - 1 ELSE tracerCalls

C11_Witness ==
    /\ gt.pc = "done"
    /\ Len(callLog) = 2
    /\ callLog[1].method = "ExecQueryF" /\ callLog[1].answer.response = "rows"
    /\ callLog[1].ctx.span = "parent"
    /\ callLog[2].method = "Close" /\ callLog[2].answer.err = "err"

\* C12: every decorated call starts exactly one span, before it invokes the
\* wrapped component, and finishes that span exactly once when the call ends,
\* whether the wrapped component gave success or an error: the only span not
\* finished is the one of the call in progress, and no span is finished twice.
C12_SpanBracketsCall ==
    /\ Len(spans) = tracerCalls
    /\ \A i \in 1..Len(spans) :
          spans[i].finished =
             IF i = Len(spans) /\ gt.pc \in {"started", "returning"} THEN 0 ELSE 1
    /\ gt.pc = "started" => Len(nextLog) = Len(spans) - 1
    /\ gt.pc \in {"returning", "done"} => Len(nextLog) = Len(spans)

C12_Witness ==
    /\ gt.pc = "done"
    /\ Len(spans) = 2
    /\ callLog[1].answer.err = "err"
    /\ callLog[2].answer.kind = "panic"
    /\ \A i \in 1..2 : spans[i].finished = 1

====
